---------------------------- MODULE Spec2Model ----------------------------
(***************************************************************************)
(* Model of the Instagram publication pipeline of NeatShoecare-backend:    *)
(* InstagramPostService (src/unnamed/part_006), MetaApiService             *)
(* (src/unnamed/part_007), ManualInstagramService                          *)
(* (src/src/instagram-post/manual-instagram.service.ts), the InstagramPost  *)
(* collection (src/src/instagram-post/instagram-post.schema.ts) and the     *)
(* link resolver GoogleDriveOAuthService.getDirectImageUrl                  *)
(* (src/src/order/dto/order.dto.ts).                                        *)
(*                                                                         *)
(* Strings the code parses (post ids, permalinks, captions) are sequences  *)
(* of one-character strings; strings the code only stores or compares are  *)
(* TLA+ strings.  A Date is a natural number, NoDate stands for null.      *)
(***************************************************************************)
EXTENDS Integers, Sequences, FiniteSets, TLC

VARIABLES
    posts,      \* the InstagramPost collection; the _id of a document is its index
    ext,        \* ids of the posts that exist on Instagram (the external platform)
    extSeq,     \* number of post ids the external platform has issued
    now,        \* the clock read by Date.now() and new Date()
    mode,       \* MetaApiService.mode, fixed at construction
    updates,    \* number of update requests served
    steps,      \* number of requests served and clock ticks so far
    procs,      \* the requests in flight, each at one of its awaits
    resolver,   \* the getDirectImageUrl call in flight: its position and attempts
    log         \* the adapter deletes and takedownAt writes made so far

vars == <<posts, ext, extSeq, now, mode, updates, steps, procs, resolver, log>>

---------------------------------------------------------------------------
(* Bounds *)

MaxPosts == 2
MaxTime == 2
MaxExt == 2
MaxUpdates == 1
MaxSteps == 4

NoDate == 0

---------------------------------------------------------------------------
(* Inputs *)

Orders == {"o1", "o2"}
MalformedOrderId == "bad"
OrderInputs == Orders \cup {MalformedOrderId}

Img1 == "https://lh3.googleusercontent.com/d/img1"
Img2 == "https://lh3.googleusercontent.com/d/img2"

Cap1 == <<"h", "i">>
Cap2 == <<"#", "a">>

CreateDtos == [orderId : OrderInputs, photoAfterUrl : {Img1}, caption : {Cap1}]

RandomTokens == {<<"k", "7">>}

PostIdInputs == 0 .. MaxPosts

UrlPost == <<"h", "t", "t", "p", "s", ":", "/", "/", "i", "n", "s", "t", "a", "g", "r", "a", "m", ".", "c", "o", "m", "/", "p", "/", "A", "B", "C", "1", "2", "3", "/">>
UrlReel == <<"h", "t", "t", "p", "s", ":", "/", "/", "w", "w", "w", ".", "i", "n", "s", "t", "a", "g", "r", "a", "m", ".", "c", "o", "m", "/", "r", "e", "e", "l", "/", "X", "y", "_", "9", "?", "a">>
UrlShort == <<"h", "t", "t", "p", ":", "/", "/", "i", "n", "s", "t", "a", "g", "r", ".", "a", "m", "/", "p", "/", "Q", "-", "1">>
UrlTv == <<"h", "t", "t", "p", "s", ":", "/", "/", "i", "n", "s", "t", "a", "g", "r", "a", "m", ".", "c", "o", "m", "/", "t", "v", "/", "A", "B", "C", "1", "2", "3", "/">>
UrlOther == <<"h", "t", "t", "p", "s", ":", "/", "/", "e", "x", "a", "m", "p", "l", "e", ".", "c", "o", "m", "/", "p", "/", "A", "B", "C", "1", "2", "3", "/">>
UrlNoId == <<"h", "t", "t", "p", "s", ":", "/", "/", "i", "n", "s", "t", "a", "g", "r", "a", "m", ".", "c", "o", "m", "/", "p", "/">>

UrlInputs == {UrlPost, UrlReel, UrlShort, UrlTv, UrlOther, UrlNoId}

---------------------------------------------------------------------------
(* Strings *)

Digits == <<"0", "1", "2", "3", "4", "5", "6", "7", "8", "9">>

RECURSIVE NatToStr(_)
NatToStr(n) ==
    IF n < 10 THEN <<Digits[n + 1]>>
    ELSE NatToStr(n \div 10) \o <<Digits[(n % 10) + 1]>>

StartsWith(s, prefix) ==
    /\ Len(s) >= Len(prefix)
    /\ SubSeq(s, 1, Len(prefix)) = prefix

Includes(s, c) == \E i \in 1 .. Len(s) : s[i] = c

\* s.includes(sub) for a string sub
IncludesStr(s, sub) ==
    \E i \in 1 .. (Len(s) - Len(sub) + 1) : SubSeq(s, i, i + Len(sub) - 1) = sub

ManualPrefix == <<"m", "a", "n", "u", "a", "l", "_">>
SimPrefix == <<"s", "i", "m", "_">>

IdChars == {"A", "B", "C", "D", "E", "F", "G", "H", "I", "J", "K", "L", "M", "N", "O", "P", "Q", "R", "S", "T", "U", "V", "W", "X", "Y", "Z", "a", "b", "c", "d", "e", "f", "g", "h", "i", "j", "k", "l", "m", "n", "o", "p", "q", "r", "s", "t", "u", "v", "w", "x", "y", "z", "0", "1", "2", "3", "4", "5", "6", "7", "8", "9", "_", "-"}

PatPost == <<"i", "n", "s", "t", "a", "g", "r", "a", "m", ".", "c", "o", "m", "/", "p", "/">>
PatReel == <<"i", "n", "s", "t", "a", "g", "r", "a", "m", ".", "c", "o", "m", "/", "r", "e", "e", "l", "/">>
PatShort == <<"i", "n", "s", "t", "a", "g", "r", ".", "a", "m", "/", "p", "/">>

InstagramUrlPatterns == <<PatPost, PatReel, PatShort>>

---------------------------------------------------------------------------
(* ManualInstagramService *)

NoMatch == <<>>

\* url.match(/<literal>([A-Za-z0-9_-]+)/): the leftmost place where the literal
\* is followed by at least one id character; the group is the longest run.
MatchStarts(url, lit) ==
    {i \in 1 .. Len(url) :
        /\ i + Len(lit) <= Len(url)
        /\ url[i] = lit[1]
        /\ SubSeq(url, i, i + Len(lit) - 1) = lit
        /\ url[i + Len(lit)] \in IdChars}

\* Mutant: the group is not greedy and keeps the first id character only.
RegexGroup_FirstChar(url, lit) ==
    IF MatchStarts(url, lit) = {} THEN NoMatch
    ELSE LET i == CHOOSE k \in MatchStarts(url, lit) :
                      \A m \in MatchStarts(url, lit) : k <= m
         IN  SubSeq(url, i + Len(lit), i + Len(lit))

RegexGroup(url, lit) ==
    IF MatchStarts(url, lit) = {} THEN NoMatch
    ELSE LET i == CHOOSE k \in MatchStarts(url, lit) :
                      \A m \in MatchStarts(url, lit) : k <= m
             s == i + Len(lit)
             e == CHOOSE k \in s .. Len(url) :
                      /\ \A j \in s .. k : url[j] \in IdChars
                      /\ (k = Len(url) \/ url[k + 1] \notin IdChars)
         IN  SubSeq(url, s, e)

RECURSIVE FirstPatternGroup(_, _, _)
FirstPatternGroup(url, patterns, k) ==
    IF k > Len(patterns) THEN NoMatch
    ELSE IF RegexGroup(url, patterns[k]) # NoMatch THEN RegexGroup(url, patterns[k])
    ELSE FirstPatternGroup(url, patterns, k + 1)

ExtractInstagramPostId(url) == FirstPatternGroup(url, InstagramUrlPatterns, 1)

\* Mutant: a url no pattern matches is tracked under the preparation id.
TrackManualPost_AlwaysSuccess(preparationId, instagramPostUrl) ==
    LET postId == ExtractInstagramPostId(instagramPostUrl)
    IN  [success |-> TRUE,
         postId |-> IF postId = NoMatch THEN preparationId ELSE postId]

TrackManualPost(preparationId, instagramPostUrl) ==
    LET postId == ExtractInstagramPostId(instagramPostUrl)
    IN  IF postId = NoMatch
        THEN [success |-> FALSE, postId |-> NoMatch]
        ELSE [success |-> TRUE, postId |-> postId]

DefaultHashtagSuffix == <<"\n", "\n", "#", "s", "h", "o", "e", "c", "a", "r", "e", " ", "#", "s", "h", "o", "e", "c", "l", "e", "a", "n", "i", "n", "g", " ", "#", "s", "n", "e", "a", "k", "e", "r", "c", "a", "r", "e">>

\* Mutant: the default hashtags are appended to every caption.
EnhanceCaption_Always(originalCaption) == originalCaption \o DefaultHashtagSuffix

EnhanceCaption(originalCaption) ==
    IF ~Includes(originalCaption, "#")
    THEN originalCaption \o DefaultHashtagSuffix
    ELSE originalCaption

ManualPrepare(imageUrl, caption, t, rnd) ==
    [id |-> ManualPrefix \o NatToStr(t) \o <<"_">> \o rnd,
     caption |-> EnhanceCaption(caption),
     imageUrl |-> imageUrl,
     calls |-> <<>>]

---------------------------------------------------------------------------
(* MetaApiService *)

\* What the Graph API answers to one createInstagramPost in production mode:
\* the credentials probe, then the media call, the publish call and the
\* permalink call, each reached only if the one before it returned an id.
MetaEnvs ==
    {[creds |-> FALSE, media |-> "-", publish |-> "-", permalink |-> "-"]}
    \cup [creds : {TRUE}, media : {"noid", "e190", "err", "net"},
          publish : {"-"}, permalink : {"-"}]
    \cup [creds : {TRUE}, media : {"id"},
          publish : {"noid", "e190", "err", "net"}, permalink : {"-"}]
    \cup [creds : {TRUE}, media : {"id"}, publish : {"id"},
          permalink : {"ok", "fail"}]

DeleteEnvs == {"ok", "fail"}

ValidateCredentials(md, env) ==
    IF md = "simulation" THEN [ok |-> TRUE, calls |-> <<>>]
    ELSE [ok |-> env.creds, calls |-> <<"validate">>]

MetaErrorMessage(answer) ==
    CASE answer = "e190" -> "Invalid Instagram access token"
      [] answer = "err" -> "Meta API Error"
      [] OTHER -> "Failed to create Instagram post"

SimulateInstagramPost(ex, sq, t, rnd) ==
    [ok |-> TRUE, id |-> SimPrefix \o NatToStr(t) \o <<"_">> \o rnd,
     msg |-> "", calls |-> <<>>, ext |-> ex, extSeq |-> sq]

\* Mutant: a failure of the permalink call fails createInstagramPost.
CreateInstagramPost_PermalinkFatal(md, ex, sq, env, imageUrl, caption, t, rnd) ==
    IF md = "simulation" THEN SimulateInstagramPost(ex, sq, t, rnd)
    ELSE IF ~env.creds THEN
        [ok |-> FALSE, id |-> <<>>,
         msg |-> "Failed to create Instagram post: Meta API credentials are invalid",
         calls |-> <<"validate">>, ext |-> ex, extSeq |-> sq]
    ELSE IF imageUrl = "" \/ caption = <<>> THEN
        [ok |-> FALSE, id |-> <<>>, msg |-> "Failed to create Instagram post",
         calls |-> <<"validate">>, ext |-> ex, extSeq |-> sq]
    ELSE IF env.media # "id" THEN
        [ok |-> FALSE, id |-> <<>>, msg |-> MetaErrorMessage(env.media),
         calls |-> <<"validate", "media">>, ext |-> ex, extSeq |-> sq]
    ELSE IF env.publish # "id" THEN
        [ok |-> FALSE, id |-> <<>>, msg |-> MetaErrorMessage(env.publish),
         calls |-> <<"validate", "media", "publish">>, ext |-> ex, extSeq |-> sq]
    ELSE LET postId == <<"1", "7", "8">> \o NatToStr(sq)
         IN  [ok |-> env.permalink = "ok",
              id |-> IF env.permalink = "ok" THEN postId ELSE <<>>,
              msg |-> IF env.permalink = "ok" THEN ""
                      ELSE "Failed to create Instagram post",
              calls |-> <<"validate", "media", "publish", "permalink">>,
              ext |-> ex \cup {postId}, extSeq |-> sq + 1]

CreateInstagramPost(md, ex, sq, env, imageUrl, caption, t, rnd) ==
    IF md = "simulation" THEN SimulateInstagramPost(ex, sq, t, rnd)
    ELSE IF ~env.creds THEN
        [ok |-> FALSE, id |-> <<>>,
         msg |-> "Failed to create Instagram post: Meta API credentials are invalid",
         calls |-> <<"validate">>, ext |-> ex, extSeq |-> sq]
    ELSE IF imageUrl = "" \/ caption = <<>> THEN
        [ok |-> FALSE, id |-> <<>>, msg |-> "Failed to create Instagram post",
         calls |-> <<"validate">>, ext |-> ex, extSeq |-> sq]
    ELSE IF env.media # "id" THEN
        [ok |-> FALSE, id |-> <<>>, msg |-> MetaErrorMessage(env.media),
         calls |-> <<"validate", "media">>, ext |-> ex, extSeq |-> sq]
    ELSE IF env.publish # "id" THEN
        [ok |-> FALSE, id |-> <<>>, msg |-> MetaErrorMessage(env.publish),
         calls |-> <<"validate", "media", "publish">>, ext |-> ex, extSeq |-> sq]
    ELSE LET postId == <<"1", "7", "8">> \o NatToStr(sq)
         IN  [ok |-> TRUE, id |-> postId, msg |-> "",
              calls |-> <<"validate", "media", "publish", "permalink">>,
              ext |-> ex \cup {postId}, extSeq |-> sq + 1]

DeleteInstagramPost(md, ex, postId, answer) ==
    IF md = "simulation" THEN [ok |-> TRUE, calls |-> <<>>, ext |-> ex]
    ELSE IF answer = "ok"
    THEN [ok |-> TRUE, calls |-> <<"delete">>, ext |-> ex \ {postId}]
    ELSE [ok |-> FALSE, calls |-> <<"delete">>, ext |-> ex]

---------------------------------------------------------------------------
(* InstagramPost documents *)

\* new this.instagramPostModel({...}): the fields given, the schema's
\* defaults for the others.
NewDocument(dto, postId, publishedAt, isPublish, isSimulated, note, status) ==
    [postId |-> postId,
     orderId |-> dto.orderId,
     photoAfterUrl |-> dto.photoAfterUrl,
     caption |-> dto.caption,
     permalink |-> <<>>,
     publishedAt |-> publishedAt,
     takedownAt |-> NoDate,
     isPublish |-> isPublish,
     isDeleted |-> FALSE,
     deletedAt |-> NoDate,
     isSimulated |-> isSimulated,
     simulationNote |-> note,
     status |-> status]

DefaultStatus == "draft"

IsValidOrderId(orderId) == orderId \in Orders

IsValidPostId(id) == id # 0

\* Mutant: the existence check looks for a published post only.
FindActiveByOrder_PublishedOnly(ps, orderId) ==
    IF \E i \in 1 .. Len(ps) :
           ps[i].orderId = orderId /\ ~ps[i].isDeleted /\ ps[i].isPublish
    THEN CHOOSE i \in 1 .. Len(ps) :
             ps[i].orderId = orderId /\ ~ps[i].isDeleted /\ ps[i].isPublish
    ELSE 0

\* findOne({orderId, isDeleted: false}): the _id of a match, 0 for null
FindActiveByOrder(ps, orderId) ==
    IF \E i \in 1 .. Len(ps) : ps[i].orderId = orderId /\ ~ps[i].isDeleted
    THEN CHOOSE i \in 1 .. Len(ps) :
             /\ ps[i].orderId = orderId /\ ~ps[i].isDeleted
             /\ \A j \in 1 .. Len(ps) :
                    (ps[j].orderId = orderId /\ ~ps[j].isDeleted) => i <= j
    ELSE 0

\* findOne({_id: id, isDeleted: false})
FindActiveById(ps, id) ==
    IF id \in 1 .. Len(ps) /\ ~ps[id].isDeleted THEN id ELSE 0

\* model.findById(id), which does not look at isDeleted
FindAnyById(ps, id) == IF id \in 1 .. Len(ps) THEN id ELSE 0

Response(ps, ex, sq, error, msg, calls, id) ==
    [posts |-> ps, ext |-> ex, extSeq |-> sq,
     error |-> error, msg |-> msg, calls |-> calls, id |-> id]

IsCredentialIssue(msg) ==
    msg \in {"Invalid Instagram access token",
             "Failed to create Instagram post: Meta API credentials are invalid"}

---------------------------------------------------------------------------
(* InstagramPostService: each handler as a function of the store, the       *)
(* platform and the request; the answer is the new store and the response  *)

AutomatedDocument(dto, meta, t) ==
    NewDocument(dto, meta.id, t, TRUE, StartsWith(meta.id, SimPrefix),
                IF StartsWith(meta.id, SimPrefix)
                THEN "Created in simulation mode - not actually posted to Instagram"
                ELSE "null",
                DefaultStatus)

\* Mutant: the pending document is saved without its status.
ManualDocument_NoStatus(dto, preparation) ==
    NewDocument(dto, preparation.id, NoDate, FALSE, TRUE,
                "Manual posting preparation - waiting for user to post manually",
                DefaultStatus)

ManualDocument(dto, preparation) ==
    NewDocument(dto, preparation.id, NoDate, FALSE, TRUE,
                "Manual posting preparation - waiting for user to post manually",
                "pending_manual")

\* Mutant: a failed adapter call is recorded as a document in status failed.
CreateAfterCheck_PersistsFailed(ps, ex, sq, md, dto, env, dbOk, t, rnd) ==
    LET meta == CreateInstagramPost(md, ex, sq, env, dto.photoAfterUrl,
                                    dto.caption, t, rnd)
    IN  IF ~meta.ok THEN
            Response(Append(ps, NewDocument(dto, <<>>, NoDate, FALSE, FALSE,
                                            "null", "failed")),
                     meta.ext, meta.extSeq, "InternalServerError",
                     "Failed to post to Instagram", meta.calls, 0)
        ELSE IF ~dbOk THEN
            Response(ps, meta.ext, meta.extSeq, "InternalServerError",
                     "Failed to create Instagram post", meta.calls, 0)
        ELSE Response(Append(ps, AutomatedDocument(dto, meta, t)),
                      meta.ext, meta.extSeq, "none", "", meta.calls, Len(ps) + 1)

CreateAfterCheck(ps, ex, sq, md, dto, env, dbOk, t, rnd) ==
    LET meta == CreateInstagramPost(md, ex, sq, env, dto.photoAfterUrl,
                                    dto.caption, t, rnd)
    IN  IF ~meta.ok THEN
            IF IsCredentialIssue(meta.msg)
            THEN Response(ps, meta.ext, meta.extSeq, "BadRequest",
                          "Instagram API configuration error", meta.calls, 0)
            ELSE Response(ps, meta.ext, meta.extSeq, "InternalServerError",
                          "Failed to post to Instagram", meta.calls, 0)
        ELSE IF ~dbOk THEN
            Response(ps, meta.ext, meta.extSeq, "InternalServerError",
                     "Failed to create Instagram post", meta.calls, 0)
        ELSE Response(Append(ps, AutomatedDocument(dto, meta, t)),
                      meta.ext, meta.extSeq, "none", "", meta.calls, Len(ps) + 1)

CreateResult(ps, ex, sq, md, dto, env, dbOk, t, rnd) ==
    IF ~IsValidOrderId(dto.orderId) THEN
        Response(ps, ex, sq, "BadRequest", "Invalid order ID format", <<>>, 0)
    ELSE IF FindActiveByOrder(ps, dto.orderId) # 0 THEN
        Response(ps, ex, sq, "BadRequest",
                 "Instagram post already exists for this order", <<>>, 0)
    ELSE CreateAfterCheck(ps, ex, sq, md, dto, env, dbOk, t, rnd)

PrepareAfterCheck(ps, ex, sq, dto, dbOk, t, rnd) ==
    LET preparation == ManualPrepare(dto.photoAfterUrl, dto.caption, t, rnd)
    IN  IF ~dbOk THEN
            Response(ps, ex, sq, "InternalServerError",
                     "Failed to prepare manual Instagram post", preparation.calls, 0)
        ELSE Response(Append(ps, ManualDocument(dto, preparation)), ex, sq,
                      "none", "", preparation.calls, Len(ps) + 1)

PrepareManualPostResult(ps, ex, sq, dto, dbOk, t, rnd) ==
    IF ~IsValidOrderId(dto.orderId) THEN
        Response(ps, ex, sq, "BadRequest", "Invalid order ID format", <<>>, 0)
    ELSE IF FindActiveByOrder(ps, dto.orderId) # 0 THEN
        Response(ps, ex, sq, "BadRequest",
                 "Instagram post already exists for this order", <<>>, 0)
    ELSE PrepareAfterCheck(ps, ex, sq, dto, dbOk, t, rnd)

ConfirmedDocument(post, trackResult, instagramUrl, t) ==
    [post EXCEPT !.postId = IF trackResult.postId # NoMatch
                            THEN trackResult.postId ELSE post.postId,
                 !.permalink = instagramUrl,
                 !.publishedAt = t,
                 !.isPublish = TRUE,
                 !.status = "published",
                 !.simulationNote = "Manually posted and confirmed by user"]

\* Mutant: the status of the document is not looked at.
ConfirmManualPostResult_NoStateCheck(ps, ex, sq, postId, instagramUrl, t) ==
    IF ~IsValidPostId(postId) THEN
        Response(ps, ex, sq, "InternalServerError",
                 "Failed to confirm manual post", <<>>, postId)
    ELSE IF FindAnyById(ps, postId) = 0 THEN
        Response(ps, ex, sq, "NotFound", "Instagram post not found", <<>>, postId)
    ELSE LET trackResult == TrackManualPost(ps[postId].postId, instagramUrl)
         IN  IF ~trackResult.success THEN
                 Response(ps, ex, sq, "BadRequest",
                          "Invalid Instagram URL provided", <<>>, postId)
             ELSE Response(
                     [ps EXCEPT ![postId] =
                         ConfirmedDocument(ps[postId], trackResult, instagramUrl, t)],
                     ex, sq, "none", "", <<>>, postId)

ConfirmManualPostResult(ps, ex, sq, postId, instagramUrl, t) ==
    IF ~IsValidPostId(postId) THEN
        Response(ps, ex, sq, "InternalServerError",
                 "Failed to confirm manual post", <<>>, postId)
    ELSE IF FindAnyById(ps, postId) = 0 THEN
        Response(ps, ex, sq, "NotFound", "Instagram post not found", <<>>, postId)
    ELSE IF ps[postId].status # "pending_manual" THEN
        Response(ps, ex, sq, "BadRequest",
                 "Post is not in pending manual status", <<>>, postId)
    ELSE LET trackResult == TrackManualPost(ps[postId].postId, instagramUrl)
         IN  IF ~trackResult.success THEN
                 Response(ps, ex, sq, "BadRequest",
                          "Invalid Instagram URL provided", <<>>, postId)
             ELSE Response(
                     [ps EXCEPT ![postId] =
                         ConfirmedDocument(ps[postId], trackResult, instagramUrl, t)],
                     ex, sq, "none", "", <<>>, postId)

\* The bodies an update request may carry (UpdateInstagramPostDto: every
\* field optional).
UpdateDtos ==
    {[orderId |-> "o2"], [orderId |-> MalformedOrderId],
     [caption |-> Cap2], [photoAfterUrl |-> Img2],
     [isPublish |-> TRUE], [isPublish |-> FALSE],
     [takedownAt |-> NoDate], [isPublish |-> TRUE, takedownAt |-> NoDate],
     [publishedAt |-> 1], [takedownAt |-> 1]}

\* findOneAndUpdate(..., {$set: dto})
SetFields(doc, dto) ==
    [f \in DOMAIN doc |-> IF f \in DOMAIN dto THEN dto[f] ELSE doc[f]]

UpdateResult(ps, ex, sq, id, dto) ==
    IF ~IsValidPostId(id) THEN
        Response(ps, ex, sq, "BadRequest", "Invalid Instagram post ID format", <<>>, id)
    ELSE IF FindActiveById(ps, id) = 0 THEN
        Response(ps, ex, sq, "NotFound", "Instagram post not found", <<>>, id)
    ELSE IF "orderId" \in DOMAIN dto /\ ~IsValidOrderId(dto.orderId) THEN
        Response(ps, ex, sq, "BadRequest", "Invalid order ID format", <<>>, id)
    ELSE Response([ps EXCEPT ![id] = SetFields(ps[id], dto)],
                  ex, sq, "none", "", <<>>, id)

TakenDownDocument(post, t) ==
    [post EXCEPT !.takedownAt = t, !.isPublish = FALSE]

\* Mutant: a simulated document is not taken down.
TakedownResult_SimulatedRejected(ps, ex, sq, md, id, answer, t) ==
    IF ~IsValidPostId(id) THEN
        Response(ps, ex, sq, "BadRequest", "Invalid Instagram post ID format", <<>>, id)
    ELSE IF FindActiveById(ps, id) = 0 THEN
        Response(ps, ex, sq, "NotFound", "Instagram post not found", <<>>, id)
    ELSE IF ~ps[id].isPublish \/ ps[id].isSimulated THEN
        Response(ps, ex, sq, "BadRequest", "Instagram post is not published", <<>>, id)
    ELSE IF ps[id].takedownAt # NoDate THEN
        Response(ps, ex, sq, "BadRequest",
                 "Instagram post has already been taken down", <<>>, id)
    ELSE LET del == DeleteInstagramPost(md, ex, ps[id].postId, answer)
         IN  Response([ps EXCEPT ![id] = TakenDownDocument(ps[id], t)],
                      del.ext, sq, "none", "", del.calls, id)

TakedownResult(ps, ex, sq, md, id, answer, t) ==
    IF ~IsValidPostId(id) THEN
        Response(ps, ex, sq, "BadRequest", "Invalid Instagram post ID format", <<>>, id)
    ELSE IF FindActiveById(ps, id) = 0 THEN
        Response(ps, ex, sq, "NotFound", "Instagram post not found", <<>>, id)
    ELSE IF ~ps[id].isPublish THEN
        Response(ps, ex, sq, "BadRequest", "Instagram post is not published", <<>>, id)
    ELSE IF ps[id].takedownAt # NoDate THEN
        Response(ps, ex, sq, "BadRequest",
                 "Instagram post has already been taken down", <<>>, id)
    ELSE LET del == DeleteInstagramPost(md, ex, ps[id].postId, answer)
         IN  Response([ps EXCEPT ![id] = TakenDownDocument(ps[id], t)],
                      del.ext, sq, "none", "", del.calls, id)

DeletedDocument(post, t) ==
    [post EXCEPT !.isDeleted = TRUE, !.deletedAt = t]

RemoveResult(ps, ex, sq, md, id, answer, t) ==
    IF ~IsValidPostId(id) THEN
        Response(ps, ex, sq, "BadRequest", "Invalid Instagram post ID format", <<>>, id)
    ELSE IF FindActiveById(ps, id) = 0 THEN
        Response(ps, ex, sq, "NotFound", "Instagram post not found", <<>>, id)
    ELSE LET down == IF ps[id].isPublish /\ ps[id].takedownAt = NoDate
                     THEN TakedownResult(ps, ex, sq, md, id, answer, t)
                     ELSE Response(ps, ex, sq, "none", "", <<>>, id)
         IN  IF down.error \in {"BadRequest", "NotFound"} THEN down
             ELSE IF down.error # "none" THEN
                 Response(down.posts, down.ext, sq, "InternalServerError",
                          "Failed to delete Instagram post", down.calls, id)
             ELSE Response([down.posts EXCEPT ![id] = DeletedDocument(down.posts[id], t)],
                           down.ext, sq, "none", "", down.calls, id)

\* Mutant: restore also puts a taken-down document back on air.
RestoredDocument_Republishes(post) ==
    [post EXCEPT !.isDeleted = FALSE, !.deletedAt = NoDate,
                 !.takedownAt = NoDate, !.isPublish = (post.publishedAt # NoDate)]

RestoredDocument(post) ==
    [post EXCEPT !.isDeleted = FALSE, !.deletedAt = NoDate]

RestoreResult(ps, ex, sq, id) ==
    IF ~IsValidPostId(id) THEN
        Response(ps, ex, sq, "BadRequest", "Invalid Instagram post ID format", <<>>, id)
    ELSE IF ~(id \in 1 .. Len(ps) /\ ps[id].isDeleted) THEN
        Response(ps, ex, sq, "NotFound",
                 "Instagram post not found or not deleted", <<>>, id)
    ELSE Response([ps EXCEPT ![id] = RestoredDocument(ps[id])],
                  ex, sq, "none", "", <<>>, id)

---------------------------------------------------------------------------
(* The state machine: one request served at a time *)

Procs == {1, 2}

NoDto == [orderId |-> "", photoAfterUrl |-> "", caption |-> <<>>]

NoDocument == <<>>

IdleProc == [pc |-> "idle", kind |-> "", dto |-> NoDto, id |-> 0,
             doc |-> NoDocument, error |-> "none", msg |-> ""]

IdleResolver == [pc |-> "idle", fileId |-> <<>>, attempts |-> <<>>, result |-> <<>>]

\* The urls the confirm requests of the state machine carry
ConfirmUrls == {UrlPost, UrlTv}

NoEnv == [creds |-> TRUE, media |-> "-", publish |-> "-", permalink |-> "-"]

\* In simulation mode the Graph API is not asked anything.
EnvsFor(md) == IF md = "simulation" THEN {NoEnv} ELSE MetaEnvs

DeleteEnvsFor(md) == IF md = "simulation" THEN {"ok"} ELSE DeleteEnvs

\* save() is reached, and can fail, only after the adapter returned an id.
DbAnswersFor(md, env) ==
    IF md = "simulation" \/ env.publish = "id" THEN BOOLEAN ELSE {TRUE}

Init ==
    /\ posts = <<>>
    /\ ext = {}
    /\ extSeq = 0
    /\ now = 1
    /\ mode \in {"simulation", "production"}
    /\ updates = 0
    /\ steps = 0
    /\ procs = [p \in Procs |-> IdleProc]
    /\ resolver = IdleResolver
    /\ log = <<>>

\* The store and the platform move to what the handler answered; the
\* response (r.error, r.msg) goes back to the caller and is not state.
Serve(r) ==
    /\ steps < MaxSteps
    /\ steps' = steps + 1
    /\ Len(r.posts) <= MaxPosts
    /\ r.extSeq <= MaxExt
    /\ posts' = r.posts
    /\ ext' = r.ext
    /\ extSeq' = r.extSeq

Create(dto, env, dbOk, rnd) ==
    /\ Serve(CreateResult(posts, ext, extSeq, mode, dto, env, dbOk, now, rnd))
    /\ UNCHANGED <<now, mode, updates, procs, resolver, log>>

PrepareManualPost(dto, dbOk, rnd) ==
    /\ Serve(PrepareManualPostResult(posts, ext, extSeq, dto, dbOk, now, rnd))
    /\ UNCHANGED <<now, mode, updates, procs, resolver, log>>

ConfirmManualPost(id, url) ==
    /\ Serve(ConfirmManualPostResult(posts, ext, extSeq, id, url, now))
    /\ UNCHANGED <<now, mode, updates, procs, resolver, log>>

Update(id, dto) ==
    /\ updates < MaxUpdates
    /\ updates' = updates + 1
    /\ Serve(UpdateResult(posts, ext, extSeq, id, dto))
    /\ UNCHANGED <<now, mode, procs, resolver, log>>

Takedown(id, answer) ==
    /\ Serve(TakedownResult(posts, ext, extSeq, mode, id, answer, now))
    /\ UNCHANGED <<now, mode, updates, procs, resolver, log>>

Remove(id, answer) ==
    /\ Serve(RemoveResult(posts, ext, extSeq, mode, id, answer, now))
    /\ UNCHANGED <<now, mode, updates, procs, resolver, log>>

Restore(id) ==
    /\ Serve(RestoreResult(posts, ext, extSeq, id))
    /\ UNCHANGED <<now, mode, updates, procs, resolver, log>>

Tick ==
    /\ now < MaxTime
    /\ steps < MaxSteps
    /\ steps' = steps + 1
    /\ now' = now + 1
    /\ UNCHANGED <<posts, ext, extSeq, mode, updates, procs, resolver, log>>

Next ==
    \/ \E dto \in CreateDtos, env \in EnvsFor(mode), rnd \in RandomTokens :
          \E dbOk \in DbAnswersFor(mode, env) : Create(dto, env, dbOk, rnd)
    \/ \E dto \in CreateDtos, dbOk \in BOOLEAN, rnd \in RandomTokens :
          PrepareManualPost(dto, dbOk, rnd)
    \/ \E id \in PostIdInputs, url \in ConfirmUrls : ConfirmManualPost(id, url)
    \/ \E id \in PostIdInputs, dto \in UpdateDtos : Update(id, dto)
    \/ \E id \in PostIdInputs, answer \in DeleteEnvsFor(mode) : Takedown(id, answer)
    \/ \E id \in PostIdInputs, answer \in DeleteEnvsFor(mode) : Remove(id, answer)
    \/ \E id \in PostIdInputs : Restore(id)
    \/ Tick

Spec == Init /\ [][Next]_vars

---------------------------------------------------------------------------
(* Two create requests in flight: create and prepareManualPost run up to    *)
(* each await (findOne, the adapter call, save) and may interleave there    *)

Finish(p, error, msg) ==
    [procs EXCEPT ![p].pc = "done", ![p].error = error, ![p].msg = msg]

\* the request arrives; the order id is validated before the first await
ReqBegin(p, kind, dto) ==
    /\ procs[p].pc = "idle"
    /\ procs' = IF ~IsValidOrderId(dto.orderId)
                THEN [procs EXCEPT ![p] = [pc |-> "done", kind |-> kind, dto |-> dto,
                                           id |-> 0, doc |-> NoDocument, error |-> "BadRequest",
                                           msg |-> "Invalid order ID format"]]
                ELSE [procs EXCEPT ![p] = [pc |-> "findOne", kind |-> kind, dto |-> dto,
                                           id |-> 0, doc |-> NoDocument, error |-> "none",
                                           msg |-> ""]]
    /\ UNCHANGED <<posts, ext, extSeq, now, mode, updates, steps, resolver, log>>

\* await findOne({orderId, isDeleted: false}) answers
ReqFindOne(p) ==
    /\ procs[p].pc = "findOne"
    /\ procs' = IF FindActiveByOrder(posts, procs[p].dto.orderId) # 0
                THEN Finish(p, "BadRequest",
                            "Instagram post already exists for this order")
                ELSE [procs EXCEPT ![p].pc = "adapter"]
    /\ UNCHANGED <<posts, ext, extSeq, now, mode, updates, steps, resolver, log>>

\* await createInstagramPost / prepareManualPost answers; the document is built
ReqAdapter(p, env, rnd) ==
    /\ procs[p].pc = "adapter"
    /\ LET dto == procs[p].dto
           meta == CreateInstagramPost(mode, ext, extSeq, env, dto.photoAfterUrl,
                                       dto.caption, now, rnd)
           preparation == ManualPrepare(dto.photoAfterUrl, dto.caption, now, rnd)
       IN  IF procs[p].kind = "prepareManualPost"
           THEN /\ procs' = [procs EXCEPT ![p].pc = "save",
                                          ![p].doc = ManualDocument(dto, preparation)]
                /\ UNCHANGED <<ext, extSeq>>
           ELSE /\ meta.extSeq <= MaxExt
                /\ ext' = meta.ext
                /\ extSeq' = meta.extSeq
                /\ procs' =
                     IF ~meta.ok
                     THEN IF IsCredentialIssue(meta.msg)
                          THEN Finish(p, "BadRequest", "Instagram API configuration error")
                          ELSE Finish(p, "InternalServerError",
                                      "Failed to post to Instagram")
                     ELSE [procs EXCEPT ![p].pc = "save",
                                        ![p].doc = AutomatedDocument(dto, meta, now)]
    /\ UNCHANGED <<posts, now, mode, updates, steps, resolver, log>>

\* await save() answers
ReqSave(p, dbOk) ==
    /\ procs[p].pc = "save"
    /\ Len(posts) < MaxPosts
    /\ IF dbOk
       THEN /\ posts' = Append(posts, procs[p].doc)
            /\ procs' = Finish(p, "none", "")
       ELSE /\ posts' = posts
            /\ procs' = Finish(p, "InternalServerError",
                               IF procs[p].kind = "create"
                               THEN "Failed to create Instagram post"
                               ELSE "Failed to prepare manual Instagram post")
    /\ UNCHANGED <<ext, extSeq, now, mode, updates, steps, resolver, log>>

NextConc ==
    \/ \E p \in Procs, kind \in {"create", "prepareManualPost"}, dto \in CreateDtos :
          ReqBegin(p, kind, dto)
    \/ \E p \in Procs : ReqFindOne(p)
    \/ \E p \in Procs, env \in EnvsFor(mode), rnd \in RandomTokens :
          ReqAdapter(p, env, rnd)
    \/ \E p \in Procs, dbOk \in BOOLEAN : ReqSave(p, dbOk)
    \/ Tick

SpecConc == Init /\ [][NextConc]_vars

---------------------------------------------------------------------------
(* GoogleDriveOAuthService.getDirectImageUrl: the link resolver, one step   *)
(* per awaited request                                                      *)

CanonicalHost == <<"l", "h", "3", ".", "g", "o", "o", "g", "l", "e", "u", "s", "e", "r", "c", "o", "n", "t", "e", "n", "t", ".", "c", "o", "m">>
FifeMarker == <<"g", "o", "o", "g", "l", "e", "u", "s", "e", "r", "c", "o", "n", "t", "e", "n", "t", ".", "c", "o", "m", "/", "f", "i", "f", "e", "/">>
DriveHost == <<"d", "r", "i", "v", "e", ".", "g", "o", "o", "g", "l", "e", ".", "c", "o", "m">>

IsDigit(c) == c \in {"0", "1", "2", "3", "4", "5", "6", "7", "8", "9"}

\* s.replace(/=w\d+$/, '')
StripSizeAtEnd(s) ==
    LET starts == {i \in 1 .. Len(s) - 2 :
                      /\ s[i] = "=" /\ s[i + 1] = "w"
                      /\ \A j \in i + 2 .. Len(s) : IsDigit(s[j])}
    IN  IF starts = {} THEN s
        ELSE SubSeq(s, 1, (CHOOSE i \in starts : \A m \in starts : i <= m) - 1)

\* s.replace(/<lit>\d+/, ''): the leftmost match, the digits taken greedily
StripFirstSize(s, lit) ==
    LET starts == {i \in 1 .. Len(s) :
                      /\ i + Len(lit) <= Len(s)
                      /\ SubSeq(s, i, i + Len(lit) - 1) = lit
                      /\ IsDigit(s[i + Len(lit)])}
    IN  IF starts = {} THEN s
        ELSE LET i == CHOOSE k \in starts : \A m \in starts : k <= m
                 d == i + Len(lit)
                 e == CHOOSE k \in d .. Len(s) :
                          /\ \A j \in d .. k : IsDigit(s[j])
                          /\ (k = Len(s) \/ ~IsDigit(s[k + 1]))
             IN  SubSeq(s, 1, i - 1) \o SubSeq(s, e + 1, Len(s))

CleanUrl(finalUrl) ==
    StripFirstSize(StripFirstSize(StripSizeAtEnd(finalUrl), <<"&", "s", "z", "=", "w">>), <<"?", "s", "z", "=", "w">>)

ThumbnailUrl(fileId, size) ==
    <<"h", "t", "t", "p", "s", ":", "/", "/", "d", "r", "i", "v", "e", ".", "g", "o", "o", "g", "l", "e", ".", "c", "o", "m", "/", "t", "h", "u", "m", "b", "n", "a", "i", "l", "?", "i", "d", "=">> \o fileId \o <<"&", "s", "z", "=">> \o size

ExportUrl(fileId) == <<"h", "t", "t", "p", "s", ":", "/", "/", "d", "r", "i", "v", "e", ".", "g", "o", "o", "g", "l", "e", ".", "c", "o", "m", "/", "u", "c", "?", "e", "x", "p", "o", "r", "t", "=", "v", "i", "e", "w", "&", "i", "d", "=">> \o fileId

UserContentUrl(fileId) ==
    <<"h", "t", "t", "p", "s", ":", "/", "/", "d", "r", "i", "v", "e", ".", "u", "s", "e", "r", "c", "o", "n", "t", "e", "n", "t", ".", "g", "o", "o", "g", "l", "e", ".", "c", "o", "m", "/", "d", "o", "w", "n", "l", "o", "a", "d", "?", "i", "d", "=">> \o fileId \o <<"&", "e", "x", "p", "o", "r", "t", "=", "v", "i", "e", "w">>

\* the size of Method 1, then the sizes of Method 2 in the order of the loop
ThumbnailSizes == <<<<"w", "1", "0", "0", "0">>, <<"w", "2", "0", "0", "0">>, <<"w", "1", "6", "0", "0">>, <<"w", "1", "2", "0", "0">>, <<"w", "8", "0", "0">>>>

\* the requests getDirectImageUrl makes for a file id, in the order of the code
StrategyOrder(fileId) ==
    [k \in 1 .. Len(ThumbnailSizes) |->
        [strategy |-> "thumbnail", url |-> ThumbnailUrl(fileId, ThumbnailSizes[k])]]
    \o <<[strategy |-> "export", url |-> ExportUrl(fileId)],
         [strategy |-> "api", url |-> fileId]>>

\* The file ids uploadPhotos may pass: ids of Drive files, and urls a caller
\* may hold in their place
FileId1 == <<"f", "1">>
FileId2 == <<"a", "-", "B", "_", "2">>
FileIdCdnUrl == <<"h", "t", "t", "p", "s", ":", "/", "/", "l", "h", "3", ".", "g", "o", "o", "g", "l", "e", "u", "s", "e", "r", "c", "o", "n", "t", "e", "n", "t", ".", "c", "o", "m", "/", "d", "/", "f", "1">>
FileIdDriveUrl == <<"h", "t", "t", "p", "s", ":", "/", "/", "d", "r", "i", "v", "e", ".", "g", "o", "o", "g", "l", "e", ".", "c", "o", "m", "/", "f", "i", "l", "e", "/", "d", "/", "f", "1", "/", "v", "i", "e", "w">>
FileIds == {FileId1, FileId2, FileIdCdnUrl, FileIdDriveUrl}

\* What a probe may come back with: an error or timeout, a response without
\* a responseUrl, or the url the redirects ended at
RedirectEndSize == <<"h", "t", "t", "p", "s", ":", "/", "/", "l", "h", "3", ".", "g", "o", "o", "g", "l", "e", "u", "s", "e", "r", "c", "o", "n", "t", "e", "n", "t", ".", "c", "o", "m", "/", "d", "/", "f", "1", "=", "w", "1", "0", "0", "0">>
RedirectQuerySize == <<"h", "t", "t", "p", "s", ":", "/", "/", "l", "h", "3", ".", "g", "o", "o", "g", "l", "e", "u", "s", "e", "r", "c", "o", "n", "t", "e", "n", "t", ".", "c", "o", "m", "/", "x", "?", "s", "z", "=", "w", "8", "0", "0">>
RedirectAmpSize == <<"h", "t", "t", "p", "s", ":", "/", "/", "l", "h", "3", ".", "g", "o", "o", "g", "l", "e", "u", "s", "e", "r", "c", "o", "n", "t", "e", "n", "t", ".", "c", "o", "m", "/", "x", "?", "a", "=", "1", "&", "s", "z", "=", "w", "1", "6", "0", "0", "&", "b", "=", "2">>
RedirectLogin == <<"h", "t", "t", "p", "s", ":", "/", "/", "a", "c", "c", "o", "u", "n", "t", "s", ".", "g", "o", "o", "g", "l", "e", ".", "c", "o", "m", "/", "s", "i", "g", "n", "i", "n">>
RedirectFife == <<"h", "t", "t", "p", "s", ":", "/", "/", "l", "h", "5", ".", "g", "o", "o", "g", "l", "e", "u", "s", "e", "r", "c", "o", "n", "t", "e", "n", "t", ".", "c", "o", "m", "/", "f", "i", "f", "e", "/", "a", "b", "c">>
RedirectTargets ==
    {RedirectEndSize, RedirectQuerySize, RedirectAmpSize, RedirectLogin, RedirectFife}

ProbeAnswers ==
    {[kind |-> "throw", url |-> <<>>], [kind |-> "noredirect", url |-> <<>>]}
    \cup {[kind |-> "redirect", url |-> u] : u \in RedirectTargets}

\* the answers the thumbnail requests and the export request are given
ThumbnailAnswers == {a \in ProbeAnswers : a.url # RedirectFife}

ExportAnswers ==
    {a \in ProbeAnswers : a.url \notin {RedirectQuerySize, RedirectAmpSize}}

WebContentLink == <<"h", "t", "t", "p", "s", ":", "/", "/", "d", "r", "i", "v", "e", ".", "g", "o", "o", "g", "l", "e", ".", "c", "o", "m", "/", "u", "c", "?", "i", "d", "=", "f", "1", "&", "e", "x", "p", "o", "r", "t", "=", "d", "o", "w", "n", "l", "o", "a", "d">>

ApiAnswers ==
    {[kind |-> "throw", url |-> <<>>], [kind |-> "nolink", url |-> <<>>],
     [kind |-> "link", url |-> WebContentLink]}

Attempted(r, answer) ==
    LET k == Len(r.attempts) + 1
        req == StrategyOrder(r.fileId)[k]
    IN  Append(r.attempts,
               [strategy |-> req.strategy, url |-> req.url, answer |-> answer])

\* Mutant: a thumbnail probe that found the canonical host does not return.
ThumbnailProbe_NoEarlyExit(r, answer) ==
    LET last == Len(r.attempts) + 1 = Len(ThumbnailSizes)
    IN  [r EXCEPT !.pc = IF last THEN "export" ELSE "thumbnail",
                  !.attempts = Attempted(r, answer),
                  !.result = IF /\ answer.kind = "redirect"
                                /\ IncludesStr(answer.url, CanonicalHost)
                             THEN CleanUrl(answer.url) ELSE r.result]

\* Methods 1 and 2: one thumbnail request; the catch of each try logs and goes on
ThumbnailProbe(r, answer) ==
    LET last == Len(r.attempts) + 1 = Len(ThumbnailSizes)
    IN  IF answer.kind = "redirect" /\ IncludesStr(answer.url, CanonicalHost)
        THEN [r EXCEPT !.pc = "done", !.attempts = Attempted(r, answer),
                       !.result = CleanUrl(answer.url)]
        ELSE [r EXCEPT !.pc = IF last THEN "export" ELSE "thumbnail",
                       !.attempts = Attempted(r, answer)]

\* Method 3: the export url
ExportProbe(r, answer) ==
    IF /\ answer.kind = "redirect"
       /\ (IncludesStr(answer.url, CanonicalHost) \/ IncludesStr(answer.url, FifeMarker))
    THEN [r EXCEPT !.pc = "done", !.attempts = Attempted(r, answer),
                   !.result = answer.url]
    ELSE [r EXCEPT !.pc = "api", !.attempts = Attempted(r, answer)]

\* Mutant: an error of drive.files.get is not caught.
ApiFallback_Raises(r, answer) ==
    IF answer.kind = "link"
    THEN [r EXCEPT !.pc = "done", !.attempts = Attempted(r, answer),
                   !.result = answer.url]
    ELSE IF answer.kind = "throw"
    THEN [r EXCEPT !.pc = "raised", !.attempts = Attempted(r, answer)]
    ELSE [r EXCEPT !.pc = "done", !.attempts = Attempted(r, answer),
                   !.result = UserContentUrl(r.fileId)]

\* drive.files.get, and the usercontent url when it gives no webContentLink
ApiFallback(r, answer) ==
    IF answer.kind = "link"
    THEN [r EXCEPT !.pc = "done", !.attempts = Attempted(r, answer),
                   !.result = answer.url]
    ELSE [r EXCEPT !.pc = "done", !.attempts = Attempted(r, answer),
                   !.result = UserContentUrl(r.fileId)]

\* ManualInstagramService.extractGoogleDriveFileId
DrivePatterns == <<<<"/", "f", "i", "l", "e", "/", "d", "/">>, <<"i", "d", "=">>, <<"/", "d", "/">>>>

ExtractGoogleDriveFileId(url) == FirstPatternGroup(url, DrivePatterns, 1)

\* ManualInstagramService.createDirectImageUrl
CreateDirectImageUrl(googleDriveUrl) ==
    IF IncludesStr(googleDriveUrl, CanonicalHost) THEN googleDriveUrl
    ELSE IF IncludesStr(googleDriveUrl, DriveHost)
    THEN <<"h", "t", "t", "p", "s", ":", "/", "/", "d", "r", "i", "v", "e", ".", "g", "o", "o", "g", "l", "e", ".", "c", "o", "m", "/", "u", "c", "?", "e", "x", "p", "o", "r", "t", "=", "d", "o", "w", "n", "l", "o", "a", "d", "&", "i", "d", "=">>
             \o ExtractGoogleDriveFileId(googleDriveUrl)
    ELSE googleDriveUrl

ResolverIdle ==
    UNCHANGED <<posts, ext, extSeq, now, mode, updates, steps, procs, log>>

\* getDirectImageUrl(fileId) is called
ResolveBegin(fileId) ==
    /\ resolver.pc = "idle"
    /\ resolver' = [pc |-> "thumbnail", fileId |-> fileId,
                    attempts |-> <<>>, result |-> <<>>]
    /\ ResolverIdle

ResolveThumbnail(answer) ==
    /\ resolver.pc = "thumbnail"
    /\ resolver' = ThumbnailProbe(resolver, answer)
    /\ ResolverIdle

ResolveExport(answer) ==
    /\ resolver.pc = "export"
    /\ resolver' = ExportProbe(resolver, answer)
    /\ ResolverIdle

ResolveApi(answer) ==
    /\ resolver.pc = "api"
    /\ resolver' = ApiFallback(resolver, answer)
    /\ ResolverIdle

\* the url has gone back to the caller
ResolveReturn ==
    /\ resolver.pc = "done"
    /\ resolver' = IdleResolver
    /\ ResolverIdle

ResolveStep ==
    \/ \E answer \in ThumbnailAnswers : ResolveThumbnail(answer)
    \/ \E answer \in ExportAnswers : ResolveExport(answer)
    \/ \E answer \in ApiAnswers : ResolveApi(answer)

NextResolver ==
    \/ \E fileId \in FileIds : ResolveBegin(fileId)
    \/ \E answer \in ThumbnailAnswers : ResolveThumbnail(answer)
    \/ \E answer \in ExportAnswers : ResolveExport(answer)
    \/ \E answer \in ApiAnswers : ResolveApi(answer)
    \/ ResolveReturn

\* every request of the chain has a timeout, so each awaited step answers
SpecResolver == Init /\ [][NextResolver]_vars /\ WF_vars(ResolveStep)

---------------------------------------------------------------------------

(* Two takedown or remove requests in flight: each runs up to its awaits    *)
(* (findById, deleteInstagramPost, findOneAndUpdate) and may interleave     *)

DownKinds == {"takedown", "remove"}

DownIdle == UNCHANGED <<extSeq, now, mode, updates, steps, resolver>>

\* the request arrives; the id is validated before the first await
DownBegin(p, kind, id) ==
    /\ procs[p].pc = "idle"
    /\ procs' =
         IF ~IsValidPostId(id)
         THEN [procs EXCEPT ![p] = [IdleProc EXCEPT !.pc = "done", !.kind = kind,
                                       !.id = id, !.error = "BadRequest",
                                       !.msg = "Invalid Instagram post ID format"]]
         ELSE [procs EXCEPT ![p] = [IdleProc EXCEPT
                                       !.pc = IF kind = "remove" THEN "removeFindById"
                                              ELSE "findById",
                                       !.kind = kind, !.id = id]]
    /\ UNCHANGED <<posts, ext, log>>
    /\ DownIdle

\* remove: await this.findById(id) answers; a published document is taken
\* down first by a call of takedown
DownRemoveFindById(p) ==
    /\ procs[p].pc = "removeFindById"
    /\ LET id == procs[p].id
       IN  procs' =
             IF FindActiveById(posts, id) = 0
             THEN Finish(p, "NotFound", "Instagram post not found")
             ELSE IF posts[id].isPublish /\ posts[id].takedownAt = NoDate
             THEN [procs EXCEPT ![p].pc = "findById"]
             ELSE [procs EXCEPT ![p].pc = "softDelete"]
    /\ UNCHANGED <<posts, ext, log>>
    /\ DownIdle

\* takedown: await this.findById(id) answers and the document read is checked
DownFindById(p) ==
    /\ procs[p].pc = "findById"
    /\ LET id == procs[p].id
       IN  procs' =
             IF FindActiveById(posts, id) = 0
             THEN Finish(p, "NotFound", "Instagram post not found")
             ELSE IF ~posts[id].isPublish
             THEN Finish(p, "BadRequest", "Instagram post is not published")
             ELSE IF posts[id].takedownAt # NoDate
             THEN Finish(p, "BadRequest",
                         "Instagram post has already been taken down")
             ELSE [procs EXCEPT ![p].pc = "delete", ![p].doc = posts[id]]
    /\ UNCHANGED <<posts, ext, log>>
    /\ DownIdle

\* takedown: await deleteInstagramPost(post.postId) answers; an error is
\* logged and the request goes on
DownDelete(p, answer) ==
    /\ procs[p].pc = "delete"
    /\ LET del == DeleteInstagramPost(mode, ext, procs[p].doc.postId, answer)
       IN  ext' = del.ext
    /\ log' = Append(log, [op |-> "delete", id |-> procs[p].id, proc |-> p])
    /\ procs' = [procs EXCEPT ![p].pc = "write"]
    /\ UNCHANGED posts
    /\ DownIdle

\* takedown: await findOneAndUpdate({_id, isDeleted: false}, {$set: ...}) answers
DownWrite(p) ==
    /\ procs[p].pc = "write"
    /\ LET id == procs[p].id
       IN  IF FindActiveById(posts, id) = 0
           THEN /\ procs' = Finish(p, "NotFound", "Instagram post not found")
                /\ UNCHANGED <<posts, log>>
           ELSE /\ posts' = [posts EXCEPT ![id] = TakenDownDocument(posts[id], now)]
                /\ log' = Append(log, [op |-> "takedownAt", id |-> id, proc |-> p])
                /\ procs' = IF procs[p].kind = "remove"
                            THEN [procs EXCEPT ![p].pc = "softDelete"]
                            ELSE Finish(p, "none", "")
    /\ UNCHANGED ext
    /\ DownIdle

\* remove: await findOneAndUpdate({_id, isDeleted: false}, {$set: isDeleted}) answers
DownSoftDelete(p) ==
    /\ procs[p].pc = "softDelete"
    /\ LET id == procs[p].id
       IN  IF FindActiveById(posts, id) = 0
           THEN /\ procs' = Finish(p, "NotFound", "Instagram post not found")
                /\ UNCHANGED posts
           ELSE /\ posts' = [posts EXCEPT ![id] = DeletedDocument(posts[id], now)]
                /\ procs' = Finish(p, "none", "")
    /\ UNCHANGED <<ext, log>>
    /\ DownIdle

NextTakedown ==
    \/ \E dto \in CreateDtos, env \in EnvsFor(mode), rnd \in RandomTokens :
          \E dbOk \in DbAnswersFor(mode, env) : Create(dto, env, dbOk, rnd)
    \/ \E p \in Procs, kind \in DownKinds, id \in PostIdInputs : DownBegin(p, kind, id)
    \/ \E p \in Procs : DownRemoveFindById(p)
    \/ \E p \in Procs : DownFindById(p)
    \/ \E p \in Procs, answer \in DeleteEnvsFor(mode) : DownDelete(p, answer)
    \/ \E p \in Procs : DownWrite(p)
    \/ \E p \in Procs : DownSoftDelete(p)
    \/ Tick

SpecTakedown == Init /\ [][NextTakedown]_vars

---------------------------------------------------------------------------

(* Properties *)

ValidCreateDtos == {dto \in CreateDtos : dto.orderId \in Orders}

HasActivePost(o) ==
    \E i \in 1 .. Len(posts) : posts[i].orderId = o /\ ~posts[i].isDeleted

ActivePosts(o) ==
    {i \in 1 .. Len(posts) : posts[i].orderId = o /\ ~posts[i].isDeleted}

\* C1: in every reachable state at most one document with isDeleted = false
\* exists for any orderId.
C1_AtMostOneActivePerOrder ==
    \A o \in Orders : Cardinality(ActivePosts(o)) <= 1

\* C2: create and prepareManualPost for an order that has a non-deleted
\* document are rejected as a duplicate, whichever path made that document;
\* no adapter call is made and the store and the platform stay as they were.
C2_DuplicateCreateRejected ==
    \A dto \in ValidCreateDtos, env \in MetaEnvs, dbOk \in BOOLEAN,
       rnd \in RandomTokens :
        HasActivePost(dto.orderId) =>
            LET c == CreateResult(posts, ext, extSeq, mode, dto, env, dbOk, now, rnd)
                m == PrepareManualPostResult(posts, ext, extSeq, dto, dbOk, now, rnd)
            IN  \A r \in {c, m} :
                    /\ r.error = "BadRequest"
                    /\ r.msg = "Instagram post already exists for this order"
                    /\ r.calls = <<>>
                    /\ r.posts = posts
                    /\ r.ext = ext
                    /\ r.extSeq = extSeq

\* a document of the manual path is in the store and an automated create
\* for its order is turned down
C2_Witness ==
    \E i \in 1 .. Len(posts), dto \in ValidCreateDtos :
        /\ posts[i].orderId = dto.orderId
        /\ ~posts[i].isDeleted
        /\ posts[i].status = "pending_manual"
        /\ CreateResult(posts, ext, extSeq, mode, dto, NoEnv, TRUE, now,
                        <<"k", "7">>).error = "BadRequest"

\* C3: the existence check and the insert of create / prepareManualPost are
\* one atomic unit: of two requests in flight for the same order at most one
\* saves a document and at most one publishes on the platform.
Persisted(p) == procs[p].pc = "done" /\ procs[p].error = "none"

PublishedExternally(p) ==
    /\ procs[p].kind = "create"
    /\ procs[p].doc # NoDocument

C3_CheckAndInsertAtomic ==
    \A p, q \in Procs :
        (p # q /\ procs[p].pc # "idle" /\ procs[q].pc # "idle"
               /\ procs[p].dto.orderId = procs[q].dto.orderId) =>
            /\ ~(Persisted(p) /\ Persisted(q))
            /\ ~(PublishedExternally(p) /\ PublishedExternally(q))

\* C4: a document that has been taken down stays taken down: it is never
\* published again and its takedownAt is never written a second time.
C4_TakenDownIsTerminal ==
    [][\A i \in 1 .. Len(posts) :
          (posts[i].takedownAt # NoDate /\ ~posts[i].isPublish) =>
              /\ posts'[i].takedownAt = posts[i].takedownAt
              /\ ~posts'[i].isPublish]_vars

ManualNotes ==
    {"Manual posting preparation - waiting for user to post manually",
     "Manually posted and confirmed by user"}

\* C5: no stored document has status draft, and a document of the automated
\* path is stored with status published and publishedAt set.
C5_NoDraftIsPersisted ==
    \A i \in 1 .. Len(posts) :
        /\ posts[i].status # "draft"
        /\ posts[i].simulationNote \notin ManualNotes =>
               (posts[i].status = "published" /\ posts[i].publishedAt # NoDate)

AdapterFails(env) == ~env.creds \/ env.media # "id" \/ env.publish # "id"

\* C6: when the automated adapter fails, create answers with an error and
\* the store is as before, so prepareManualPost for the same order is accepted.
C6_AdapterFailurePersistsNothing ==
    \A dto \in ValidCreateDtos, env \in MetaEnvs, dbOk \in BOOLEAN,
       rnd \in RandomTokens :
        (mode = "production" /\ AdapterFails(env) /\ ~HasActivePost(dto.orderId)) =>
            LET c == CreateResult(posts, ext, extSeq, mode, dto, env, dbOk, now, rnd)
                m == PrepareManualPostResult(c.posts, c.ext, c.extSeq, dto, TRUE,
                                             now, rnd)
            IN  /\ c.error \in {"BadRequest", "InternalServerError"}
                /\ c.posts = posts
                /\ m.error = "none"
                /\ Len(m.posts) = Len(posts) + 1

\* production mode, requests were served, and an order without a document is
\* left for which the adapter can fail and the manual path is still open
C6_Witness ==
    /\ mode = "production"
    /\ steps >= 2
    /\ Len(posts) = 1
    /\ posts[1].status = "pending_manual"
    /\ ext = {}
    /\ \E dto \in ValidCreateDtos, env \in MetaEnvs :
           /\ AdapterFails(env)
           /\ ~HasActivePost(dto.orderId)
           /\ CreateResult(posts, ext, extSeq, mode, dto, env, TRUE, now,
                           <<"k", "7">>).error = "InternalServerError"
           /\ PrepareManualPostResult(posts, ext, extSeq, dto, TRUE, now,
                                      <<"k", "7">>).error = "none"

IsPlaceholderId(postId) ==
    /\ Len(postId) > 7
    /\ SubSeq(postId, 1, 7) = <<"m", "a", "n", "u", "a", "l", "_">>

\* C7: an accepted prepareManualPost adds exactly one document, in status
\* pending_manual, with a manual_ placeholder as postId, publishedAt null and
\* isPublish false, and calls nothing on the platform.
C7_PrepareManualPersistsPending ==
    \A dto \in ValidCreateDtos, rnd \in RandomTokens :
        ~HasActivePost(dto.orderId) =>
            LET r == PrepareManualPostResult(posts, ext, extSeq, dto, TRUE, now, rnd)
                d == r.posts[Len(r.posts)]
            IN  /\ r.error = "none"
                /\ Len(r.posts) = Len(posts) + 1
                /\ SubSeq(r.posts, 1, Len(posts)) = posts
                /\ d.orderId = dto.orderId
                /\ d.status = "pending_manual"
                /\ IsPlaceholderId(d.postId)
                /\ d.publishedAt = NoDate
                /\ ~d.isPublish
                /\ ~d.isDeleted
                /\ r.calls = <<>>
                /\ r.ext = ext
                /\ r.extSeq = extSeq

\* the store holds the document a manual preparation has just saved
C7_Witness ==
    /\ steps = 1
    /\ Len(posts) = 1
    /\ posts[1].status = "pending_manual"
    /\ IsPlaceholderId(posts[1].postId)
    /\ posts[1].publishedAt = NoDate
    /\ ~posts[1].isPublish
    /\ ext = {}

\* C8: confirmManualPost is accepted only on a document in status
\* pending_manual; on a document in any other status it answers with the
\* state error and changes nothing.
C8_ConfirmOnlyWhenPending ==
    \A id \in 1 .. Len(posts), url \in UrlInputs :
        LET r == ConfirmManualPostResult(posts, ext, extSeq, id, url, now)
        IN  /\ posts[id].status # "pending_manual" =>
                /\ r.error = "BadRequest"
                /\ r.msg = "Post is not in pending manual status"
                /\ r.posts = posts
                /\ r.ext = ext
            /\ r.error = "none" => posts[id].status = "pending_manual"

\* a confirmed document that was taken down (status published) and an
\* automated one (status draft) are in the store, and a confirmation of
\* either is turned down
C8_Witness ==
    /\ \E i \in 1 .. Len(posts) :
           posts[i].status = "published" /\ posts[i].takedownAt # NoDate
    /\ \E i \in 1 .. Len(posts) : posts[i].status = "draft"
    /\ \A i \in 1 .. Len(posts) :
           ConfirmManualPostResult(posts, ext, extSeq, i, UrlPost, now).error
               = "BadRequest"

\* the urls of the inputs that have none of the three permalink shapes
UrlsOfNoShape == {UrlTv, UrlOther, UrlNoId}

\* C9: confirmManualPost with a url of no known permalink shape answers with
\* the validation error and the pending document stays as it was.
C9_BadUrlLeavesPending ==
    \A id \in 1 .. Len(posts), url \in UrlsOfNoShape :
        posts[id].status = "pending_manual" =>
            LET r == ConfirmManualPostResult(posts, ext, extSeq, id, url, now)
            IN  /\ r.error = "BadRequest"
                /\ r.msg = "Invalid Instagram URL provided"
                /\ r.posts = posts
                /\ r.ext = ext

\* a pending document that confirm requests have left as prepared
C9_Witness ==
    /\ steps >= 2
    /\ Len(posts) = 1
    /\ posts[1].status = "pending_manual"
    /\ IsPlaceholderId(posts[1].postId)
    /\ posts[1].publishedAt = NoDate
    /\ ~posts[1].isPublish
    /\ ConfirmManualPostResult(posts, ext, extSeq, 1, UrlTv, now).error
           = "BadRequest"

\* the post id each permalink of the inputs carries
PermalinkIds ==
    {<<UrlPost, <<"A", "B", "C", "1", "2", "3">> >>,
     <<UrlReel, <<"X", "y", "_", "9">> >>,
     <<UrlShort, <<"Q", "-", "1">> >>}

\* C10: an accepted confirmManualPost replaces the placeholder by the id the
\* url carries, sets status published and publishedAt, and leaves orderId,
\* photoAfterUrl and caption (and every other document) as they were.
C10_ConfirmReplacesPlaceholder ==
    \A id \in 1 .. Len(posts), u \in PermalinkIds :
        posts[id].status = "pending_manual" =>
            LET r == ConfirmManualPostResult(posts, ext, extSeq, id, u[1], now)
                d == r.posts[id]
            IN  /\ r.error = "none"
                /\ Len(r.posts) = Len(posts)
                /\ \A j \in 1 .. Len(posts) : j # id => r.posts[j] = posts[j]
                /\ d.postId = u[2]
                /\ d.status = "published"
                /\ d.isPublish
                /\ d.publishedAt = now
                /\ d.publishedAt # NoDate
                /\ d.orderId = posts[id].orderId
                /\ d.photoAfterUrl = posts[id].photoAfterUrl
                /\ d.caption = posts[id].caption

\* a document confirmed with https://instagram.com/p/ABC123/
C10_Witness ==
    \E i \in 1 .. Len(posts) :
        /\ posts[i].status = "published"
        /\ posts[i].permalink = UrlPost
        /\ posts[i].postId = <<"A", "B", "C", "1", "2", "3">>
        /\ posts[i].publishedAt # NoDate

\* C11: takedown on a document that is pending_manual, failed or already
\* taken down is rejected: no delete call goes to the platform and the store
\* and the platform stay as they were.
C11_TakedownOnlyWhenPublished ==
    \A id \in 1 .. Len(posts), answer \in DeleteEnvs :
        (\/ posts[id].status \in {"pending_manual", "failed", "taken_down"}
         \/ posts[id].takedownAt # NoDate) =>
            LET r == TakedownResult(posts, ext, extSeq, mode, id, answer, now)
            IN  /\ r.error \in {"BadRequest", "NotFound"}
                /\ r.calls = <<>>
                /\ r.posts = posts
                /\ r.ext = ext

\* C12: an accepted takedown leaves the document with status taken_down and
\* takedownAt set, whether the platform's delete succeeds or fails, and the
\* failure of the delete is not an error of the request.
C12_TakedownEndsTakenDown ==
    \A id \in 1 .. Len(posts), answer \in DeleteEnvs :
        LET r == TakedownResult(posts, ext, extSeq, mode, id, answer, now)
        IN  /\ (~posts[id].isDeleted /\ posts[id].isPublish
                  /\ posts[id].takedownAt = NoDate) => r.error = "none"
            /\ r.error = "none" =>
                   /\ r.posts[id].status = "taken_down"
                   /\ r.posts[id].takedownAt # NoDate

\* C13: remove of a document that is still published takes it down first: it
\* ends deleted with status taken_down, as takedown followed by remove does,
\* and no document is deleted while it is still published.
C13_RemoveTakesDownFirst ==
    \A id \in 1 .. Len(posts), answer \in DeleteEnvs :
        LET r == RemoveResult(posts, ext, extSeq, mode, id, answer, now)
            t == TakedownResult(posts, ext, extSeq, mode, id, answer, now)
            tr == RemoveResult(t.posts, t.ext, t.extSeq, mode, id, answer, now)
        IN  (posts[id].status = "published" /\ r.error = "none") =>
                /\ r.posts[id].isDeleted
                /\ r.posts[id].status = "taken_down"
                /\ ~r.posts[id].isPublish
                /\ (t.error = "none" /\ tr.error = "none") =>
                       tr.posts[id] = r.posts[id]

\* the fields of a document other than the two soft-delete markers
FieldsRestoreKeeps ==
    {"postId", "orderId", "photoAfterUrl", "caption", "permalink", "publishedAt",
     "takedownAt", "isPublish", "isSimulated", "simulationNote", "status"}

\* C14: restore of a soft-deleted document sets isDeleted to false and
\* deletedAt to null and leaves every other field, every other document and
\* the platform as they were; restore of a document that is not deleted is
\* rejected and changes nothing.
C14_RestoreClearsDeleteFlagsOnly ==
    \A id \in 1 .. Len(posts) :
        LET r == RestoreResult(posts, ext, extSeq, id)
        IN  IF posts[id].isDeleted
            THEN /\ r.error = "none"
                 /\ Len(r.posts) = Len(posts)
                 /\ ~r.posts[id].isDeleted
                 /\ r.posts[id].deletedAt = NoDate
                 /\ \A f \in FieldsRestoreKeeps : r.posts[id][f] = posts[id][f]
                 /\ \A j \in 1 .. Len(posts) : j # id => r.posts[j] = posts[j]
                 /\ r.ext = ext
                 /\ r.calls = <<>>
            ELSE /\ r.error = "NotFound"
                 /\ r.posts = posts
                 /\ r.ext = ext

\* a document removed while published (so taken down on the way) that restore
\* accepts, beside a document that is not deleted, whose restore is rejected
C14_Witness ==
    /\ \E i \in 1 .. Len(posts) :
           /\ posts[i].isDeleted
           /\ posts[i].deletedAt # NoDate
           /\ posts[i].takedownAt # NoDate
           /\ RestoreResult(posts, ext, extSeq, i).error = "none"
    /\ \E j \in 1 .. Len(posts) :
           /\ ~posts[j].isDeleted
           /\ RestoreResult(posts, ext, extSeq, j).error = "NotFound"

\* C15: publishedAt and takedownAt are each given a date at most once (a date
\* once stored is never replaced by another), and takedownAt is set only on a
\* document whose publishedAt is set and is not earlier than it, whatever
\* requests are served, update among them.
C15_TimestampsSetOnceAndOrdered ==
    [][/\ \A i \in 1 .. Len(posts) :
              /\ (posts[i].publishedAt # NoDate /\ posts'[i].publishedAt # NoDate)
                     => posts'[i].publishedAt = posts[i].publishedAt
              /\ (posts[i].takedownAt # NoDate /\ posts'[i].takedownAt # NoDate)
                     => posts'[i].takedownAt = posts[i].takedownAt
       /\ \A i \in 1 .. Len(posts') :
              posts'[i].takedownAt # NoDate =>
                  /\ posts'[i].publishedAt # NoDate
                  /\ posts'[i].publishedAt <= posts'[i].takedownAt]_vars

\* C16: the orderId of a document never changes after its creation, and its
\* photoAfterUrl and caption never change once its status is published,
\* whatever requests are served, update among them.
C16_OrderAndContentImmutable ==
    [][\A i \in 1 .. Len(posts) :
          /\ posts'[i].orderId = posts[i].orderId
          /\ posts[i].status = "published" =>
                 /\ posts'[i].photoAfterUrl = posts[i].photoAfterUrl
                 /\ posts'[i].caption = posts[i].caption]_vars

SameLifecycle(x, y) ==
    /\ x.status = y.status
    /\ x.isPublish = y.isPublish
    /\ (x.takedownAt # NoDate) = (y.takedownAt # NoDate)

\* C17: for an order without a document, the document an accepted automated
\* create stores and the document prepareManualPost then confirmManualPost
\* store have the same status (published), isPublish and takedownAt-set, and
\* after a takedown of each they again have the same (taken down).
C17_PathsConverge ==
    \A dto \in ValidCreateDtos, env \in MetaEnvs, rnd \in RandomTokens,
       answer \in DeleteEnvs :
        (~HasActivePost(dto.orderId) /\ (mode = "simulation" \/ ~AdapterFails(env))) =>
            LET n == Len(posts) + 1
                a == CreateResult(posts, ext, extSeq, mode, dto, env, TRUE, now, rnd)
                p == PrepareManualPostResult(posts, ext, extSeq, dto, TRUE, now, rnd)
                m == ConfirmManualPostResult(p.posts, p.ext, p.extSeq, n, UrlPost, now)
                ta == TakedownResult(a.posts, a.ext, a.extSeq, mode, n, answer, now)
                tm == TakedownResult(m.posts, m.ext, m.extSeq, mode, n, answer, now)
            IN  /\ a.error = "none"
                /\ m.error = "none"
                /\ SameLifecycle(a.posts[n], m.posts[n])
                /\ ta.error = "none"
                /\ tm.error = "none"
                /\ SameLifecycle(ta.posts[n], tm.posts[n])

\* C18: in simulation mode validateCredentials, createInstagramPost and
\* deleteInstagramPost make no call to the platform; create for an order
\* without a document is accepted, the stored postId starts with sim_, the
\* document is published with isSimulated true, and a second create for the
\* same order is rejected as a duplicate.
C18_SimulationModeCreate ==
    mode = "simulation" =>
        \A dto \in ValidCreateDtos, env \in MetaEnvs, rnd \in RandomTokens :
            /\ ValidateCredentials(mode, env) = [ok |-> TRUE, calls |-> <<>>]
            /\ \A answer \in DeleteEnvs :
                   LET del == DeleteInstagramPost(mode, ext, <<"s", "i", "m", "_", "1">>,
                                                  answer)
                   IN  del.ok /\ del.calls = <<>> /\ del.ext = ext
            /\ ~HasActivePost(dto.orderId) =>
                   LET c == CreateResult(posts, ext, extSeq, mode, dto, env, TRUE,
                                         now, rnd)
                       d == c.posts[Len(c.posts)]
                       again == CreateResult(c.posts, c.ext, c.extSeq, mode, dto, env,
                                             TRUE, now, rnd)
                   IN  /\ c.error = "none"
                       /\ c.calls = <<>>
                       /\ c.ext = ext
                       /\ Len(c.posts) = Len(posts) + 1
                       /\ Len(d.postId) > 4
                       /\ SubSeq(d.postId, 1, 4) = <<"s", "i", "m", "_">>
                       /\ d.isSimulated
                       /\ d.isPublish
                       /\ d.publishedAt # NoDate
                       /\ d.status = "published"
                       /\ again.error = "BadRequest"
                       /\ again.msg = "Instagram post already exists for this order"
                       /\ again.posts = c.posts

SimulationNotes ==
    {"Created in simulation mode - not actually posted to Instagram", "null"}

\* what a request leaves of a document apart from isSimulated and its note
LifecycleOf(doc) ==
    [status |-> doc.status, isPublish |-> doc.isPublish, postId |-> doc.postId,
     publishedAt |-> doc.publishedAt, takedownAt |-> doc.takedownAt,
     isDeleted |-> doc.isDeleted, deletedAt |-> doc.deletedAt]

SameOutcome(r1, r2, id) ==
    /\ r1.error = r2.error
    /\ r1.msg = r2.msg
    /\ r1.calls = r2.calls
    /\ r1.ext = r2.ext
    /\ LifecycleOf(r1.posts[id]) = LifecycleOf(r2.posts[id])

\* C19: a document and the same document with another isSimulated and
\* another simulationNote have confirmManualPost, takedown, remove and restore
\* accepted and rejected alike, and end with the same status, isPublish,
\* timestamps and delete markers.
C19_IsSimulatedDoesNotDecide ==
    \A id \in 1 .. Len(posts), note \in SimulationNotes :
        LET other == [posts EXCEPT ![id].isSimulated = ~posts[id].isSimulated,
                                   ![id].simulationNote = note]
        IN  /\ \A url \in ConfirmUrls :
                   SameOutcome(
                       ConfirmManualPostResult(posts, ext, extSeq, id, url, now),
                       ConfirmManualPostResult(other, ext, extSeq, id, url, now), id)
            /\ \A answer \in DeleteEnvs :
                   /\ SameOutcome(
                          TakedownResult(posts, ext, extSeq, mode, id, answer, now),
                          TakedownResult(other, ext, extSeq, mode, id, answer, now), id)
                   /\ SameOutcome(
                          RemoveResult(posts, ext, extSeq, mode, id, answer, now),
                          RemoveResult(other, ext, extSeq, mode, id, answer, now), id)
            /\ SameOutcome(RestoreResult(posts, ext, extSeq, id),
                           RestoreResult(other, ext, extSeq, id), id)

\* a published document with isSimulated true (confirmed manual post) beside
\* one with isSimulated false (automated post in production mode), and a
\* takedown of either is accepted
C19_Witness ==
    \E i, j \in 1 .. Len(posts) :
        /\ posts[i].isSimulated
        /\ ~posts[j].isSimulated
        /\ TakedownResult(posts, ext, extSeq, mode, i, "ok", now).error = "none"
        /\ TakedownResult(posts, ext, extSeq, mode, j, "ok", now).error = "none"

\* C20: the takedown of a document published through the manual path
\* (prepared, then confirmed) is recorded in the store only: no delete call
\* goes to the platform.
C20_ManualTakedownIsLocal ==
    \A id \in 1 .. Len(posts), answer \in DeleteEnvs :
        posts[id].simulationNote = "Manually posted and confirmed by user" =>
            LET r == TakedownResult(posts, ext, extSeq, mode, id, answer, now)
            IN  r.error = "none" =>
                    /\ r.calls = <<>>
                    /\ r.ext = ext
                    /\ r.posts[id].takedownAt # NoDate

CaptionInputs ==
    {<<>>, Cap1, Cap2, <<"a", "#">>, <<"h", "i", "\n">>, <<"a", " ", "#", "b", " ", "c">>}

DefaultHashtags ==
    {<<"#", "s", "h", "o", "e", "c", "a", "r", "e">>,
     <<"#", "s", "h", "o", "e", "c", "l", "e", "a", "n", "i", "n", "g">>,
     <<"#", "s", "n", "e", "a", "k", "e", "r", "c", "a", "r", "e">>,
     <<"#", "n", "e", "a", "t", "s", "h", "o", "e", "c", "a", "r", "e">>,
     <<"#", "s", "h", "o", "e", "l", "o", "v", "e", "r">>}

\* C22: enhanceCaption of a caption without a # character is the caption
\* followed by text that holds at least one default hashtag; enhanceCaption
\* of a caption with a # character is the caption itself.
C22_EnricherAppendsOnlyWithoutHash ==
    \A caption \in CaptionInputs \cup {posts[i].caption : i \in 1 .. Len(posts)} :
        LET e == EnhanceCaption(caption)
        IN  IF \A k \in 1 .. Len(caption) : caption[k] # "#"
            THEN /\ Len(e) > Len(caption)
                 /\ SubSeq(e, 1, Len(caption)) = caption
                 /\ \E h \in DefaultHashtags :
                        IncludesStr(SubSeq(e, Len(caption) + 1, Len(e)), h)
            ELSE e = caption

\* a manual preparation has been served for a caption without #, and the
\* caption it hands back ends with the default hashtags
C22_Witness ==
    \E i \in 1 .. Len(posts) :
        /\ posts[i].status = "pending_manual"
        /\ \A k \in 1 .. Len(posts[i].caption) : posts[i].caption[k] # "#"
        /\ ManualPrepare(posts[i].photoAfterUrl, posts[i].caption, now,
                         <<"k", "7">>).caption # posts[i].caption

IsPrefixOf(s, full) == Len(s) <= Len(full) /\ SubSeq(full, 1, Len(s)) = s

Position(s, x) == IF \E i \in 1 .. Len(s) : s[i] = x
                  THEN CHOOSE i \in 1 .. Len(s) : s[i] = x
                  ELSE 0

\* the calls and the answer of one createInstagramPost in production mode
ProductionCreate(env) ==
    CreateInstagramPost("production", ext, extSeq, env, Img1, Cap1, now, <<"k", "7">>)

\* C23 as the specification words it: createInstagramPost talks to the
\* platform in two round trips, the media call then the publish call, with
\* the permalink call as an optional third.
C23_TwoRoundTripsOnly ==
    \A env \in MetaEnvs :
        IsPrefixOf(ProductionCreate(env).calls, <<"media", "publish", "permalink">>)

\* C23: in production mode createInstagramPost first probes the credentials;
\* the media call is made only if the probe succeeds, the publish call only
\* after the media call returned an id, an id is returned only after the
\* publish call returned one, and the permalink call comes last and its
\* failure does not fail createInstagramPost.
C23_RoundTripsInOrder ==
    \A env \in MetaEnvs :
        LET r == ProductionCreate(env)
            at(x) == Position(r.calls, x)
        IN  /\ at("validate") = 1
            /\ at("media") # 0 => (env.creds /\ at("media") = 2)
            /\ at("publish") # 0 => (env.media = "id" /\ at("publish") = at("media") + 1)
            /\ at("permalink") # 0 =>
                   /\ env.publish = "id"
                   /\ at("permalink") = at("publish") + 1
                   /\ at("permalink") = Len(r.calls)
            /\ Len(r.calls) <= 4
            /\ r.ok <=> (env.creds /\ env.media = "id" /\ env.publish = "id")
            /\ r.ok => (at("publish") # 0 /\ r.id # <<>> /\ r.id \in r.ext)
            /\ ~r.ok => (r.id = <<>> /\ r.ext = ext)

\* production mode, and a post that createInstagramPost published is on the
\* platform and held by a document
C23_Witness ==
    /\ mode = "production"
    /\ \E i \in 1 .. Len(posts) : posts[i].postId \in ext
    /\ ProductionCreate([creds |-> TRUE, media |-> "id", publish |-> "id",
                         permalink |-> "fail"]).ok

\* the platform answers that are provider state: rejected or expired
\* credentials and a network failure
ProviderStateFailure(env) ==
    \/ ~env.creds
    \/ env.media \in {"e190", "net"}
    \/ (env.media = "id" /\ env.publish \in {"e190", "net"})

ServerFault == {"InternalServerError"}

ClientFault == {"BadRequest", "NotFound"}

\* C26: on the create and confirm paths no failure is swallowed, a failure
\* caused by provider state (invalid or expired credentials, network failure)
\* is answered as a server fault and a failure caused by caller input (a url
\* of no permalink shape) as a client fault.
C26_FailuresClassifiedByCause ==
    /\ \A dto \in ValidCreateDtos, env \in EnvsFor(mode), rnd \in RandomTokens :
           LET r == CreateResult(posts, ext, extSeq, mode, dto, env, TRUE, now, rnd)
           IN  (mode = "production" /\ ~HasActivePost(dto.orderId)) =>
                   /\ AdapterFails(env) => r.error # "none"
                   /\ ProviderStateFailure(env) => r.error \in ServerFault
    /\ \A id \in 1 .. Len(posts), url \in UrlsOfNoShape :
           (posts[id].status = "pending_manual" /\ ~posts[id].isDeleted) =>
               ConfirmManualPostResult(posts, ext, extSeq, id, url, now).error
                   \in ClientFault

\* C27: a soft-deleted document is changed by no operation other than
\* restore: confirmManualPost, takedown, update and remove on it answer
\* not found and leave it as it is.
C27_DeletedOnlyRestored ==
    \A id \in 1 .. Len(posts) :
        posts[id].isDeleted =>
            /\ \A url \in UrlInputs :
                   LET r == ConfirmManualPostResult(posts, ext, extSeq, id, url, now)
                   IN  r.error = "NotFound" /\ r.posts = posts
            /\ \A answer \in DeleteEnvsFor(mode) :
                   /\ LET r == TakedownResult(posts, ext, extSeq, mode, id, answer, now)
                      IN  r.error = "NotFound" /\ r.posts = posts
                   /\ LET r == RemoveResult(posts, ext, extSeq, mode, id, answer, now)
                      IN  r.error = "NotFound" /\ r.posts = posts
            /\ \A dto \in UpdateDtos :
                   LET r == UpdateResult(posts, ext, extSeq, id, dto)
                   IN  r.error = "NotFound" /\ r.posts = posts

\* C29: whenever the automated adapter has published a post during create,
\* a document holding that post's id exists once create has finished,
\* whatever the outcome of create, a failed save after the publish included.
C29_NoOrphanExternalPost ==
    \A e \in ext : \E i \in 1 .. Len(posts) : posts[i].postId = e

\* C30: in every document isPublish is true exactly when status is
\* 'published', and takedownAt is set exactly when status is 'taken_down'.
C30_PublicationFieldsAgree ==
    \A i \in 1 .. Len(posts) :
        /\ posts[i].isPublish <=> (posts[i].status = "published")
        /\ (posts[i].takedownAt # NoDate) <=> (posts[i].status = "taken_down")

\* an attempt of the chain that ends it: a thumbnail redirect to the canonical
\* host, an export redirect to it or to a fife url, a webContentLink
Wins(attempt) ==
    CASE attempt.strategy = "thumbnail" ->
             /\ attempt.answer.kind = "redirect"
             /\ IncludesStr(attempt.answer.url, CanonicalHost)
      [] attempt.strategy = "export" ->
             /\ attempt.answer.kind = "redirect"
             /\ \/ IncludesStr(attempt.answer.url, CanonicalHost)
                \/ IncludesStr(attempt.answer.url, FifeMarker)
      [] OTHER -> attempt.answer.kind = "link"

ResultOf(attempt) ==
    IF attempt.strategy = "thumbnail" THEN CleanUrl(attempt.answer.url)
    ELSE attempt.answer.url

IsHttpsUrl(s) == StartsWith(s, <<"h", "t", "t", "p", "s", ":", "/", "/">>) /\ Len(s) > Len(<<"h", "t", "t", "p", "s", ":", "/", "/">>)

EveryStrategyFailed(r) ==
    /\ Len(r.attempts) = Len(StrategyOrder(r.fileId))
    /\ \A k \in 1 .. Len(r.attempts) : ~Wins(r.attempts[k])

\* C21: getDirectImageUrl never raises: for every file id and every
\* combination of failures and timeouts of its requests it returns a url, and
\* when every strategy failed the url is the usercontent download template
\* built from the file id.
C21_ResolverNeverRaises ==
    /\ resolver.pc \in {"idle", "thumbnail", "export", "api", "done"}
    /\ resolver.pc = "done" =>
           /\ IsHttpsUrl(resolver.result)
           /\ EveryStrategyFailed(resolver) =>
                  resolver.result = UserContentUrl(resolver.fileId)

\* every request of the chain failed, some by an error or timeout, and the
\* call has returned
C21_Witness ==
    /\ resolver.pc = "done"
    /\ EveryStrategyFailed(resolver)
    /\ \A k \in 1 .. Len(resolver.attempts) :
           resolver.attempts[k].answer.kind = "throw"
    /\ resolver.result = UserContentUrl(FileId2)

C24_OrderAndEarlyExit ==
    LET order == StrategyOrder(resolver.fileId)
        n == Len(resolver.attempts)
    IN  /\ n <= Len(order)
        /\ \A k \in 1 .. n :
               /\ resolver.attempts[k].strategy = order[k].strategy
               /\ resolver.attempts[k].url = order[k].url
               /\ Wins(resolver.attempts[k]) =>
                      /\ k = n
                      /\ resolver.pc = "done"
                      /\ resolver.result = ResultOf(resolver.attempts[k])
        /\ resolver.pc = "done" =>
               /\ n >= 1
               /\ Wins(resolver.attempts[n]) \/ n = Len(order)
        /\ resolver.pc \in {"thumbnail", "export", "api"} =>
               /\ n < Len(order)
               /\ order[n + 1].strategy = resolver.pc

LogCount(op, id) ==
    Cardinality({k \in 1 .. Len(log) : log[k].op = op /\ log[k].id = id})

\* C28: for any interleaving of two takedown requests, or a takedown and a
\* remove, on the same published document, the adapter's delete is called at
\* most once and takedownAt is written at most once; of two takedown requests
\* the second is rejected.
C28_TakedownAtMostOnce ==
    /\ \A id \in 1 .. Len(posts) :
           /\ LogCount("delete", id) <= 1
           /\ LogCount("takedownAt", id) <= 1
    /\ \A p, q \in Procs :
           (/\ p # q
            /\ procs[p].kind = "takedown" /\ procs[q].kind = "takedown"
            /\ procs[p].id = procs[q].id
            /\ procs[p].pc = "done" /\ procs[q].pc = "done")
           => ~(procs[p].error = "none" /\ procs[q].error = "none")

=============================================================================
